---- MODULE Spec2Model ----
(***************************************************************************)
(* paperboymq: the amq.Queue actor (ingestion loop + dispatch loop joined  *)
(* by unbuffered channels), its round-robin ring of consumers and the      *)
(* FIFO store behind it.                                                   *)
(*                                                                         *)
(* Every channel of Queue is unbuffered, so a send and its receive are one *)
(* rendezvous step of the two goroutines involved.  A goroutine's position *)
(* is kept in a pc variable; the local statements that follow a receive    *)
(* are part of the step that performs the receive.                         *)
(***************************************************************************)
EXTENDS Integers, Sequences, FiniteSets, TLC

(***************************************************************************)
(* Bounds of the model.                                                    *)
(***************************************************************************)
MaxMsgs == 2        \* Consume calls made by the producers, in total
MaxOps == 3         \* Subscribe / Unsubscribe calls made, in total
MaxZero == 1        \* receives from the closed handoff channel in the main loop
MaxRouteLen == 7    \* characters of a routing key given to a matcher
MaxCacheRoute == 1  \* characters of a routing key given by concurrent Matches callers
MaxCalls == 6       \* calls on a consumerRoundRobin used on its own
MaxAdds == 4        \* Add calls on a QueueHandler used on its own

Producers == {"p1"}
Consumers == {"c1", "c2"}
Clients == {"a1"}

Msgs == 1..MaxMsgs
NilMsg == 0         \* the zero value of the Message interface (nil)
Nodes == 1..(Cardinality(Consumers) + 1)
NilNode == 0        \* the nil *consumersRing
NoConsumer == "none"

NoOp == [subscribe |-> TRUE, consumer |-> NoConsumer]   \* no call in progress

ErrNone == "nil"
ErrConsumerAlreadySubscribed == "ConsumerAlreadySubscribed"
ErrConsumerNotFound == "ConsumerNotFound"

VARIABLES
    store,          \* inputHandler's q (the QueueHandler)
    ihPc,           \* inputHandler: "loop", "drain", "cnf", "done"
    outputClosed,   \* close(self.output) has been executed
    ohPc,           \* outputHandler: "loop", "consume", "reply", "flush",
                    \*   "flushConsume", "discard", "cnf", "done"
    rr,             \* outputHandler's rr: [ring, consumers]
    heap,           \* the consumersRing nodes: node -> [prev, next, consumer]
    prodPc,         \* producer: "idle", or "send" (blocked in self.input <- msg)
    prodMsg,        \* the message of the producer's Consume call
    nextMsg,        \* identity of the next message passed to Consume
    cliPc,          \* client: "idle", or "wait" (blocked in <-result)
    cliOp,          \* the client's subscriptionOp: [subscribe, consumer]
    cliRes,         \* the error value waiting in op.result
    nOps,           \* number of Subscribe / Unsubscribe calls made
    clPc,           \* close(): "idle", "quit1", "quit2", "cnf1", "cnf2", "done"
    force,          \* the argument of close()
    zeros,          \* receives from the closed handoff channel in the main loop
    \* history of the run, read by the properties only
    accepted,       \* messages added to the store, in order
    handed,         \* messages sent over self.output, in order
    delivered,      \* <<consumer, message>> of every Consume invoked by the queue
    closeAcc,       \* Len(accepted) when Close / ForceClose was called
    closeDel,       \* Len(delivered) when Close / ForceClose was called
    changed,        \* a Subscribe / Unsubscribe succeeded after that call
    subAcc,         \* Len(accepted) at the last successful Subscribe / Unsubscribe
    removed,        \* consumers whose Unsubscribe returned nil, not subscribed since
    \* callers of Queue.Len
    lenTick,        \* flips at every Len() call answered
    lenRes,         \* the value the last Len() call received
    \* amq.Exchange
    exMatcher,      \* Exchange.matcher
    exConsumers,    \* Exchange.consumers: binding -> consumer
    mu,             \* Exchange.mu: [readers, blocked, writer]
    rPc,            \* Consume caller: "idle", "rlock" (blocked in RLock), "range"
    rMsg,           \* routing key of the message of the Consume call
    rTodo,          \* bindings the range loop has not visited yet
    rSent,          \* the call's sent map
    rGot,           \* history: consumer -> deliveries made by the call
    rSeen,          \* history: the binding table when the call got the read lock
    wPc,            \* BindTo / UnbindFrom caller: "idle", "lock" (blocked in Lock), "in"
    wOp,            \* its call: [bind, binding]
    wErr,           \* the error its last call returned
    \* package matcher
    mKey,           \* binding.Key of the Matches calls
    mRoute,         \* msg.RoutingKey() of the Matches calls
    mRes,           \* the last Matches call: [matcher, cached, value]
    patternCache,   \* patternCache.cache: binding key -> compiled pattern
    mPublish,       \* goroutines started to publish a pattern: <<key, pattern>>
    cacheMu,        \* patternCache's RWMutex: [readers, blocked, writer]
    tPc,            \* concurrent Topic.Matches caller: "idle", "rlock", "locked", "found"
    tKey,           \* its binding.Key
    tRoute,         \* its msg.RoutingKey()
    tRes,           \* its answer: [cached, value]
    \* a QueueHandler used on its own
    hKind,          \* "fifo" (NewQueueHandler) or "pq" (NewPQHandler)
    hStore,         \* the buffered messages: queue.Queue contents / the heapImpl slice
    hLog,           \* history: the Adds and Removes that returned, in order
    hLast,          \* the outcome of the last call: [op, msg, panic]
    \* a consumerRoundRobin used on its own
    robin,          \* the consumerRoundRobin: [ring, consumers]
    robinHeap,      \* its consumersRing nodes
    robinLog        \* history: the calls made on it, their outcomes, Len() after each

ihVars == <<store, ihPc, outputClosed>>
ohVars == <<ohPc, rr, heap, zeros>>
prodVars == <<prodPc, prodMsg, nextMsg>>
cliVars == <<cliPc, cliOp, cliRes, nOps>>
clVars == <<clPc, force, closeAcc, closeDel>>
subHist == <<changed, subAcc, removed>>
lenVars == <<lenTick, lenRes>>
\* what no step of the queue's two loops, producers, clients or close() touches
routerVars == <<rPc, rMsg, rTodo, rSent, rGot, rSeen>>
binderVars == <<wPc, wOp, wErr>>
exVars == <<exMatcher, exConsumers, mu, routerVars, binderVars>>
cacheVars == <<cacheMu, tPc, tKey, tRoute, tRes>>
matcherVars == <<mKey, mRoute, mRes, patternCache, mPublish, cacheVars>>
handlerVars == <<hKind, hStore, hLog, hLast>>
robinVars == <<robin, robinHeap, robinLog>>
restVars == <<lenVars, exVars, matcherVars, handlerVars, robinVars>>
queueVars == <<ihVars, ohVars, prodVars, cliVars, clVars, subHist, accepted, handed, delivered>>
vars == <<queueVars, restVars>>
\* what the steps of one component leave alone
outsideLen == <<queueVars, exVars, matcherVars, handlerVars, robinVars>>
outsideExchange == <<queueVars, lenVars, matcherVars, handlerVars, robinVars>>
outsideMatcher == <<queueVars, lenVars, exVars, handlerVars, robinVars>>
outsideHandler == <<queueVars, lenVars, exVars, matcherVars, robinVars>>
outsideRobin == <<queueVars, lenVars, exVars, matcherVars, handlerVars>>

(***************************************************************************)
(* The FIFO store (queueHandler over eapache/queue).                       *)
(***************************************************************************)
qLen(q) == Len(q)
\* a store that puts the new message at the front
qAddFront(q, msg) == <<msg>> \o q
qAdd(q, msg) == Append(q, msg)
qPeek(q) == Head(q)
\* a store that removes its newest message
qRemoveLast(q) == SubSeq(q, 1, Len(q) - 1)
qRemove(q) == Tail(q)

(***************************************************************************)
(* consumersRing: a circular doubly-linked list of heap nodes.             *)
(***************************************************************************)
FreeNode == [prev |-> NilNode, next |-> NilNode, consumer |-> NoConsumer]

RECURSIVE reach(_, _, _)
reach(h, n, seen) ==
    IF n = NilNode \/ n \in seen THEN seen ELSE reach(h, h[n].next, seen \cup {n})

\* nodes no pointer leads to are garbage: their cells are free again
collect(h, self) ==
    [n \in DOMAIN h |-> IF n \in reach(h, self, {}) THEN h[n] ELSE FreeNode]

newNode(h, self) == CHOOSE n \in DOMAIN h \ reach(h, self, {}) :
                        \A m \in DOMAIN h \ reach(h, self, {}) : n <= m

ringAdd(h, self, consumer) ==
    LET elem == newNode(h, self) IN
    IF self = NilNode
    THEN [heap |-> [h EXCEPT ![elem] = [prev |-> elem, next |-> elem, consumer |-> consumer]],
          ring |-> elem]
    ELSE LET p == h[self].prev
             h1 == [h EXCEPT ![elem] = [prev |-> p, next |-> self, consumer |-> consumer]]
             h2 == [h1 EXCEPT ![p].next = elem]
             h3 == [h2 EXCEPT ![self].prev = elem]
         IN [heap |-> h3, ring |-> self]

RECURSIVE findBefore(_, _, _)
findBefore(h, current, consumer) ==
    IF h[h[current].next].consumer = consumer
    THEN current
    ELSE findBefore(h, h[current].next, consumer)

\* remove that steps back when the current node is the one removed
ringRemoveBack(h, self, consumer) ==
    IF self = NilNode
    THEN [heap |-> h, ring |-> NilNode]
    ELSE LET current == findBefore(h, self, consumer)
             h1 == [h EXCEPT ![current].next = h[h[current].next].next]
             h2 == [h1 EXCEPT ![h1[current].next].prev = current]
             ret == IF h[self].consumer = consumer THEN h2[self].prev ELSE self
         IN [heap |-> collect(h2, ret), ring |-> ret]

ringRemove(h, self, consumer) ==
    IF self = NilNode
    THEN [heap |-> h, ring |-> NilNode]
    ELSE LET current == findBefore(h, self, consumer)
             h1 == [h EXCEPT ![current].next = h[h[current].next].next]
             h2 == [h1 EXCEPT ![h1[current].next].prev = current]
             ret == IF h[self].consumer = consumer THEN h2[self].next ELSE self
         IN [heap |-> collect(h2, ret), ring |-> ret]

(***************************************************************************)
(* consumerRoundRobin                                                      *)
(***************************************************************************)
rrLen(r) == Cardinality(r.consumers)

\* Add without the duplicate check
rrAddNoCheck(r, h, consumer) ==
    LET a == ringAdd(h, r.ring, consumer)
    IN [err |-> ErrNone,
        rr |-> [ring |-> a.ring, consumers |-> r.consumers \cup {consumer}],
        heap |-> a.heap]

rrAdd(r, h, consumer) ==
    IF consumer \in r.consumers
    THEN [err |-> ErrConsumerAlreadySubscribed, rr |-> r, heap |-> h]
    ELSE LET a == ringAdd(h, r.ring, consumer)
         IN [err |-> ErrNone,
             rr |-> [ring |-> a.ring, consumers |-> r.consumers \cup {consumer}],
             heap |-> a.heap]

\* Remove that reports no error for a consumer it does not hold
rrRemoveSilent(r, h, consumer) ==
    IF consumer \notin r.consumers
    THEN [err |-> ErrNone, rr |-> r, heap |-> h]
    ELSE LET a == ringRemove(h, r.ring, consumer)
         IN [err |-> ErrNone,
             rr |-> [ring |-> a.ring, consumers |-> r.consumers \ {consumer}],
             heap |-> a.heap]

rrRemove(r, h, consumer) ==
    IF consumer \notin r.consumers
    THEN [err |-> ErrConsumerNotFound, rr |-> r, heap |-> h]
    ELSE LET a == ringRemove(h, r.ring, consumer)
         IN [err |-> ErrNone,
             rr |-> [ring |-> a.ring, consumers |-> r.consumers \ {consumer}],
             heap |-> a.heap]

rrNext(r, h) ==
    [consumer |-> h[r.ring].consumer, rr |-> [r EXCEPT !.ring = h[r.ring].next]]

(***************************************************************************)
(* NewQueue                                                                *)
(***************************************************************************)
NewQueue ==
    /\ store = <<>>
    /\ ihPc = "loop"
    /\ outputClosed = FALSE
    /\ ohPc = "loop"
    /\ rr = [ring |-> NilNode, consumers |-> {}]
    /\ heap = [n \in Nodes |-> FreeNode]
    /\ prodPc = [p \in Producers |-> "idle"]
    /\ prodMsg = [p \in Producers |-> NilMsg]
    /\ nextMsg = 1
    /\ cliPc = [a \in Clients |-> "idle"]
    /\ cliOp = [a \in Clients |-> NoOp]
    /\ cliRes = [a \in Clients |-> ErrNone]
    /\ nOps = 0
    /\ clPc = "idle"
    /\ force = FALSE
    /\ zeros = 0
    /\ accepted = <<>>
    /\ handed = <<>>
    /\ delivered = <<>>
    /\ closeAcc = 0
    /\ closeDel = 0
    /\ changed = FALSE
    /\ subAcc = 0
    /\ removed = {}

\* no Len() call has been made
LenInit ==
    /\ lenTick = FALSE
    /\ lenRes = 0

(***************************************************************************)
(* amq.Exchange: bindings, matchers, callers.                              *)
(***************************************************************************)
Routers == {"r1", "r2"}         \* goroutines calling Exchange.Consume
Binders == {"w1", "w2"}         \* goroutines calling BindTo / UnbindFrom
NoThread == "none"

\* routing keys and binding keys are strings: sequences of characters
KeyK == <<"k">>
KeyE == <<"e">>
ExKeys == {KeyK, KeyE}

\* binding objects (pointers to binding structs): b1 and b2 are two objects
\* with the same key and the same consumer
Bindings == {"b1", "b2", "b3", "b4"}
BindingKey(b) == IF b \in {"b1", "b2"} THEN KeyK ELSE KeyE
Consumer(b) == IF b = "b4" THEN "c2" ELSE "c1"

ErrAlreadyBound == "AlreadyBound"
ErrBindingNotFound == "BindingNotFound"

\* a direct matcher that accepts a routing key the binding key is a prefix of
directMatchPrefix(routingKey, bindingKey) ==
    /\ Len(bindingKey) <= Len(routingKey)
    /\ SubSeq(routingKey, 1, Len(bindingKey)) = bindingKey

directMatchFunc(routingKey, bindingKey) == routingKey = bindingKey
fanoutMatchFunc(routingKey, bindingKey) == TRUE

Matchers == {"direct", "fanout"}
Matches(matcher, routingKey, bindingKey) ==
    IF matcher = "direct"
    THEN directMatchFunc(routingKey, bindingKey)
    ELSE fanoutMatchFunc(routingKey, bindingKey)

NoBindingOp == [bind |-> TRUE, binding |-> "none"]
noDeliveries == [c \in Consumers |-> 0]
emptyTable == [b \in {} |-> NoConsumer]

NewExchange(matcher) ==
    /\ exMatcher = matcher
    /\ exConsumers = emptyTable
    /\ mu = [readers |-> {}, blocked |-> {}, writer |-> NoThread]
    /\ rPc = [t \in Routers |-> "idle"]
    /\ rMsg = [t \in Routers |-> KeyK]
    /\ rTodo = [t \in Routers |-> {}]
    /\ rSent = [t \in Routers |-> {}]
    /\ rGot = [t \in Routers |-> noDeliveries]
    /\ rSeen = [t \in Routers |-> emptyTable]
    /\ wPc = [t \in Binders |-> "idle"]
    /\ wOp = [t \in Binders |-> NoBindingOp]
    /\ wErr = [t \in Binders |-> ErrNone]

(***************************************************************************)
(* Package matcher: keys are strings, sequences of characters.             *)
(***************************************************************************)
RouteChars == {"k", ".", "-"}
RoutingKeys == UNION {[1..n -> RouteChars] : n \in 0..MaxRouteLen}

BindingKeys ==
    { <<>>, <<"k">>, <<"k", ".", "k">>,
      <<"k", ".", "#", ".", "k">>, <<"#", ".", "k">>, <<"k", ".", "#">>, <<"#">>,
      <<"*">>, <<"*", ".", "k">>, <<"k", ".", "*", ".", "k">> }

NoResult == [matcher |-> "none", cached |-> FALSE, value |-> FALSE]
Callers == {"t1", "t2"}         \* goroutines calling Topic.Matches concurrently
NoJob == <<>>                   \* no publishing goroutine holds or awaits the lock
NoAnswer == [cached |-> FALSE, value |-> FALSE]
emptyCache == [key \in {} |-> <<>>]

\* no Matches call made yet on the given keys; the pattern cache is empty
MatcherInit(bindingKey, routingKey) ==
    /\ mKey = bindingKey
    /\ mRoute = routingKey
    /\ mRes = NoResult
    /\ patternCache = emptyCache
    /\ mPublish = {}
    /\ cacheMu = [readers |-> {}, blocked |-> {}, writer |-> NoJob]
    /\ tPc = [t \in Callers |-> "idle"]
    /\ tKey = [t \in Callers |-> <<>>]
    /\ tRoute = [t \in Callers |-> <<>>]
    /\ tRes = [t \in Callers |-> NoAnswer]

(***************************************************************************)
(* QueueHandler values outside a Queue: NewQueueHandler / NewPQHandler.    *)
(***************************************************************************)
\* messages by Message.Priority() and Message.Timestamp() (ordered by Before):
\* three priorities, two messages of one priority, and timestamps that do
\* not follow the priorities
HandlerMsgs ==
    { [priority |-> 3, timestamp |-> 1],
      [priority |-> 2, timestamp |-> 1],
      [priority |-> 2, timestamp |-> 2],
      [priority |-> 1, timestamp |-> 2] }
HandlerKinds == {"fifo", "pq"}
NoPanic == ""
\* the zero value of the Message interface, where messages are records
NilMessage == [priority |-> 0, timestamp |-> 0]
NoCall == [op |-> "New", msg |-> NilMessage, panic |-> NoPanic]

NewHandler(kind) ==
    /\ hKind = kind
    /\ hStore = <<>>
    /\ hLog = <<>>
    /\ hLast = NoCall

(***************************************************************************)
(* newRoundRobinHandler, for a consumerRoundRobin outside a Queue.         *)
(***************************************************************************)
RobinConsumers == {"c1", "c2", "c3"}
RobinNodes == 1..(Cardinality(RobinConsumers) + 1)

newRoundRobinHandler ==
    /\ robin = [ring |-> NilNode, consumers |-> {}]
    /\ robinHeap = [n \in RobinNodes |-> FreeNode]
    /\ robinLog = <<>>

Init ==
    /\ NewQueue
    /\ LenInit
    /\ NewExchange("direct")
    /\ MatcherInit(<<>>, <<>>)
    /\ NewHandler("fifo")
    /\ newRoundRobinHandler

(***************************************************************************)
(* Producers: Queue.Consume is  self.input <- msg.                         *)
(***************************************************************************)
ConsumeCall(p) ==
    /\ prodPc[p] = "idle"
    /\ nextMsg <= MaxMsgs
    /\ prodPc' = [prodPc EXCEPT ![p] = "send"]
    /\ prodMsg' = [prodMsg EXCEPT ![p] = nextMsg]
    /\ nextMsg' = nextMsg + 1
    /\ UNCHANGED <<restVars, ihVars, ohVars, cliVars, clVars, subHist, accepted, handed, delivered>>

\* a store of capacity one: input is taken only while the store is empty
InputReadyWhenEmpty == ihPc = "loop" /\ qLen(store) = 0

\* inputHandler's select is ready to receive from self.input
InputReady == ihPc = "loop"

\* case msg := <-self.input: q.Add(msg)     (both branches of inputHandler)
IH_Input(p) ==
    /\ InputReady
    /\ prodPc[p] = "send"
    /\ store' = qAdd(store, prodMsg[p])
    /\ accepted' = Append(accepted, prodMsg[p])
    /\ prodPc' = [prodPc EXCEPT ![p] = "idle"]
    /\ UNCHANGED <<restVars, ihPc, outputClosed, ohVars, prodMsg, nextMsg, cliVars,
                   clVars, subHist, handed, delivered>>

(***************************************************************************)
(* The handoff channel self.output.                                        *)
(***************************************************************************)
\* inputHandler is at  self.output <- q.Peek()  (the select, or the drain loop)
IHOffers == ihPc \in {"loop", "drain"} /\ qLen(store) > 0

\* the send completed: q.Remove()
IHSent ==
    /\ store' = qRemove(store)
    /\ handed' = Append(handed, qPeek(store))
    /\ UNCHANGED <<ihPc, outputClosed>>

\* rr.Next().Consume(msg): the consumer's Consume is invoked
OHDeliver(msg, pc) ==
    LET n == rrNext(rr, heap) IN
    /\ rr' = n.rr
    /\ delivered' = Append(delivered, <<n.consumer, msg>>)
    /\ ohPc' = pc
    /\ UNCHANGED heap

\* outputHandler's main select offers  case msg := <-self.output
MainReceives == ohPc = "loop" /\ rrLen(rr) > 0

\* main loop with consumers: case msg := <-self.output: rr.Next().Consume(msg)
Handoff_Main ==
    /\ IHOffers
    /\ MainReceives
    /\ IHSent
    /\ OHDeliver(qPeek(store), "consume")
    /\ UNCHANGED <<restVars, zeros, prodVars, cliVars, clVars, subHist, accepted>>

\* graceful shutdown with consumers: for msg := range self.output { rr.Next().Consume(msg) }
Handoff_Flush ==
    /\ IHOffers
    /\ ohPc = "flush"
    /\ IHSent
    /\ OHDeliver(qPeek(store), "flushConsume")
    /\ UNCHANGED <<restVars, zeros, prodVars, cliVars, clVars, subHist, accepted>>

\* graceful shutdown without consumers: for _ = range self.output {}
Handoff_Discard ==
    /\ IHOffers
    /\ ohPc = "discard"
    /\ IHSent
    /\ UNCHANGED <<restVars, ohVars, prodVars, cliVars, clVars, subHist, accepted, delivered>>

\* the main select receives from the closed channel: msg is the zero value
Closed_Main ==
    /\ outputClosed
    /\ MainReceives
    /\ zeros < MaxZero
    /\ zeros' = zeros + 1
    /\ OHDeliver(NilMsg, "consume")
    /\ UNCHANGED <<restVars, ihVars, prodVars, cliVars, clVars, subHist, accepted, handed>>

\* range self.output ends when the channel is closed
Closed_Range ==
    /\ outputClosed
    /\ ohPc \in {"flush", "discard"}
    /\ ohPc' = "cnf"
    /\ UNCHANGED <<restVars, ihVars, rr, heap, zeros, prodVars, cliVars, clVars, subHist,
                   accepted, handed, delivered>>

\* the consumer's Consume returns
ConsumeReturn ==
    /\ ohPc \in {"consume", "flushConsume"}
    /\ ohPc' = IF ohPc = "consume" THEN "loop" ELSE "flush"
    /\ UNCHANGED <<restVars, ihVars, rr, heap, zeros, prodVars, cliVars, clVars, subHist,
                   accepted, handed, delivered>>

(***************************************************************************)
(* Subscribe / Unsubscribe: a subscriptionOp sent over self.subscriptions, *)
(* answered over op.result.                                                *)
(***************************************************************************)
\* what outputHandler computes for an op received in its main select
subscriptionResult(r, h, op) ==
    IF rrLen(r) > 0
    THEN IF op.subscribe
         THEN rrAdd(r, h, op.consumer)
         ELSE rrRemove(r, h, op.consumer)
    ELSE IF op.subscribe
         THEN rrAdd(r, h, op.consumer)
         ELSE [err |-> ErrConsumerNotFound, rr |-> r, heap |-> h]

\* Subscribe / Unsubscribe sends the op; outputHandler's main select receives it
\* (case op := <-self.subscriptions) and computes the result, which then waits
\* in  op.result <- ...
OH_Subscription(a, subscribe, consumer) ==
    /\ ohPc = "loop"
    /\ cliPc[a] = "idle"
    /\ nOps < MaxOps
    /\ nOps' = nOps + 1
    /\ cliOp' = [cliOp EXCEPT ![a] = [subscribe |-> subscribe, consumer |-> consumer]]
    /\ LET res == subscriptionResult(rr, heap, cliOp'[a]) IN
        /\ rr' = res.rr
        /\ heap' = res.heap
        /\ cliRes' = [cliRes EXCEPT ![a] = res.err]
        /\ changed' = (changed \/ (res.err = ErrNone /\ clPc # "idle"))
        /\ subAcc' = IF res.err = ErrNone THEN Len(accepted) ELSE subAcc
    /\ ohPc' = "reply"
    /\ cliPc' = [cliPc EXCEPT ![a] = "wait"]
    /\ UNCHANGED <<restVars, ihVars, zeros, prodVars, clVars, removed, accepted, handed, delivered>>

\* the client receives from op.result: Subscribe / Unsubscribe returns
OH_Reply(a) ==
    /\ ohPc = "reply"
    /\ cliPc[a] = "wait"
    /\ ohPc' = "loop"
    /\ cliPc' = [cliPc EXCEPT ![a] = "idle"]
    /\ removed' = IF cliRes[a] # ErrNone THEN removed
                  ELSE IF cliOp[a].subscribe THEN removed \ {cliOp[a].consumer}
                  ELSE removed \cup {cliOp[a].consumer}
    /\ cliOp' = [cliOp EXCEPT ![a] = NoOp]
    /\ cliRes' = [cliRes EXCEPT ![a] = ErrNone]
    /\ UNCHANGED <<restVars, ihVars, rr, heap, zeros, prodVars, nOps, clVars,
                   changed, subAcc, accepted, handed, delivered>>

(***************************************************************************)
(* Close / ForceClose: two sends over self.quit, two receives from         *)
(* self.quitCnf.                                                           *)
(***************************************************************************)
\* close() that waits for one acknowledgment only
closeStepOneCnf(pc) ==
    CASE pc = "quit1" -> "quit2"
      [] pc = "quit2" -> "cnf1"
      [] pc = "cnf1" -> "done"
      [] pc = "cnf2" -> "done"

closeStep(pc) ==
    CASE pc = "quit1" -> "quit2"
      [] pc = "quit2" -> "cnf1"
      [] pc = "cnf1" -> "cnf2"
      [] pc = "cnf2" -> "done"

QuitOffered == clPc \in {"quit1", "quit2"}
CnfAwaited == clPc \in {"cnf1", "cnf2"}

CloseCall(f) ==
    /\ clPc = "idle"
    /\ clPc' = "quit1"
    /\ force' = f
    /\ closeAcc' = Len(accepted)
    /\ closeDel' = Len(delivered)
    /\ UNCHANGED <<restVars, ihVars, ohVars, prodVars, cliVars, subHist, accepted, handed, delivered>>

\* inputHandler that drains and closes on a forced shutdown too
ihAfterQuitAlwaysDrain(f) == "drain"

\* inputHandler that returns from a forced shutdown without acknowledging
ihAfterQuitNoCnf(f) == IF f THEN "done" ELSE "drain"

\* where inputHandler goes after  force := <-self.quit
ihAfterQuit(f) == IF f THEN "cnf" ELSE "drain"

IH_Quit ==
    /\ ihPc = "loop"
    /\ QuitOffered
    /\ clPc' = closeStep(clPc)
    /\ ihPc' = ihAfterQuit(force)
    /\ UNCHANGED <<restVars, store, outputClosed, ohVars, prodVars, cliVars, force, closeAcc,
                   closeDel, subHist, accepted, handed, delivered>>

\* a drain loop that stops at once
drainedAlways(q) == TRUE

\* for q.Len() > 0 { ... } is over
drained(q) == ~(qLen(q) > 0)

\* close(self.output), once the store has been drained
IH_CloseOutput ==
    /\ ihPc = "drain"
    /\ drained(store)
    /\ outputClosed' = TRUE
    /\ ihPc' = "cnf"
    /\ UNCHANGED <<restVars, store, ohVars, prodVars, cliVars, clVars, subHist,
                   accepted, handed, delivered>>

\* self.quitCnf <- true; return
IH_Cnf ==
    /\ ihPc = "cnf"
    /\ CnfAwaited
    /\ clPc' = closeStep(clPc)
    /\ ihPc' = "done"
    /\ UNCHANGED <<restVars, store, outputClosed, ohVars, prodVars, cliVars, force, closeAcc,
                   closeDel, subHist, accepted, handed, delivered>>

\* outputHandler that does not drain the handoff channel when it has no consumers
ohAfterQuitNoDiscard(f, r) ==
    IF f THEN "cnf" ELSE IF rrLen(r) > 0 THEN "flush" ELSE "cnf"

\* outputHandler that flushes to its consumers without having any
ohAfterQuitAlwaysFlush(f, r) ==
    IF f THEN "cnf" ELSE "flush"

\* where outputHandler goes after  force := <-self.quit
ohAfterQuit(f, r) ==
    IF f THEN "cnf" ELSE IF rrLen(r) > 0 THEN "flush" ELSE "discard"

OH_Quit ==
    /\ ohPc = "loop"
    /\ QuitOffered
    /\ clPc' = closeStep(clPc)
    /\ ohPc' = ohAfterQuit(force, rr)
    /\ UNCHANGED <<restVars, ihVars, rr, heap, zeros, prodVars, cliVars, force, closeAcc,
                   closeDel, subHist, accepted, handed, delivered>>

OH_Cnf ==
    /\ ohPc = "cnf"
    /\ CnfAwaited
    /\ clPc' = closeStep(clPc)
    /\ ohPc' = "done"
    /\ UNCHANGED <<restVars, ihVars, rr, heap, zeros, prodVars, cliVars, force, closeAcc,
                   closeDel, subHist, accepted, handed, delivered>>

Next ==
    \/ \E p \in Producers : ConsumeCall(p)
    \/ \E p \in Producers : IH_Input(p)
    \/ Handoff_Main
    \/ Handoff_Flush
    \/ Handoff_Discard
    \/ Closed_Main
    \/ Closed_Range
    \/ ConsumeReturn
    \/ \E a \in Clients, s \in BOOLEAN, c \in Consumers : OH_Subscription(a, s, c)
    \/ \E a \in Clients : OH_Reply(a)
    \/ \E f \in BOOLEAN : CloseCall(f)
    \/ IH_Quit
    \/ IH_CloseOutput
    \/ IH_Cnf
    \/ OH_Quit
    \/ OH_Cnf

Spec == Init /\ [][Next]_vars

TypeOK ==
    /\ store \in Seq(Msgs)
    /\ ihPc \in {"loop", "drain", "cnf", "done"}
    /\ ohPc \in {"loop", "consume", "reply", "flush", "flushConsume", "discard", "cnf", "done"}
    /\ rr.ring \in Nodes \cup {NilNode}
    /\ rr.consumers \subseteq Consumers
    /\ clPc \in {"idle", "quit1", "quit2", "cnf1", "cnf2", "done"}

(***************************************************************************)
(* Scheduling.  Go's select picks among its ready cases uniformly at       *)
(* random, so a case that is ready again and again is eventually taken     *)
(* (strong fairness for the quit case of a loop that keeps leaving and     *)
(* re-entering its select); a goroutine that can run eventually runs.      *)
(* Consumers' Consume calls return.  Callers of the queue are not obliged  *)
(* to call anything.                                                       *)
(***************************************************************************)
FairSpec ==
    /\ Spec
    /\ WF_vars(Handoff_Main)
    /\ WF_vars(Handoff_Flush)
    /\ WF_vars(Handoff_Discard)
    /\ WF_vars(Closed_Range)
    /\ WF_vars(ConsumeReturn)
    /\ WF_vars(\E a \in Clients : OH_Reply(a))
    /\ SF_vars(IH_Quit)
    /\ SF_vars(OH_Quit)
    /\ WF_vars(IH_CloseOutput)
    /\ WF_vars(IH_Cnf)
    /\ WF_vars(OH_Cnf)

\* only the ingestion loop is scheduled fairly: the dispatch loop may stay
\* inside a consumer for ever
IngestSpec == Spec /\ \A p \in Producers : WF_vars(IH_Input(p))

(***************************************************************************)
(* Queue.Len:  return <-self.lenght.  inputHandler offers the length of    *)
(* its store in both branches of its loop.                                 *)
(***************************************************************************)
\* inputHandler that always offers 0
lenghtValueZero(q) == 0

\* case self.lenght <- q.Len()   /   case self.lenght <- 0
lenghtValue(q) == IF qLen(q) > 0 THEN qLen(q) ELSE 0

LenCall ==
    /\ ihPc = "loop"
    /\ lenRes' = lenghtValue(store)
    /\ lenTick' = ~lenTick
    /\ UNCHANGED outsideLen

LenNext == Next \/ LenCall

\* the queue with callers of Len()
LenSpec == Init /\ [][LenNext]_vars

(***************************************************************************)
(* Exchange.mu, a sync.RWMutex.  RLock waits while a writer holds the lock *)
(* or has announced itself and waits for the readers inside to leave; Lock *)
(* excludes other writers first, then waits for the readers inside; Unlock *)
(* lets in every reader that waited.                                       *)
(***************************************************************************)
rlockFree(m) == m.writer = NoThread

\* a write lock that does not wait for the readers inside
lockFreeAlways(m) == TRUE

lockFree(m) == m.readers = {}

(***************************************************************************)
(* Exchange.Consume                                                        *)
(***************************************************************************)
\* self.mu.RLock(); sent := make(map[MessageConsumer]struct{})
EX_RLock(t, key) ==
    /\ rPc[t] = "idle"
    /\ rMsg' = [rMsg EXCEPT ![t] = key]
    /\ IF rlockFree(mu)
       THEN /\ mu' = [mu EXCEPT !.readers = @ \cup {t}]
            /\ rPc' = [rPc EXCEPT ![t] = "range"]
            /\ rTodo' = [rTodo EXCEPT ![t] = DOMAIN exConsumers]
            /\ rSeen' = [rSeen EXCEPT ![t] = exConsumers]
       ELSE /\ mu' = [mu EXCEPT !.blocked = @ \cup {t}]
            /\ rPc' = [rPc EXCEPT ![t] = "rlock"]
            /\ UNCHANGED <<rTodo, rSeen>>
    /\ UNCHANGED <<outsideExchange, exMatcher, exConsumers, rSent, rGot, binderVars>>

\* a range loop that never skips
alreadySentNever(sent, consumer) == FALSE

\* if _, alreadySent := sent[consumer]; alreadySent { continue }
alreadySent(sent, consumer) == consumer \in sent

\* a range loop that marks every consumer it visits
sentAfterVisit(sent, consumer, matched) == sent \cup {consumer}

\* sent[consumer] = struct{}{}, inside  if self.matcher.Matches(msg, binding)
sentAfter(sent, consumer, matched) == IF matched THEN sent \cup {consumer} ELSE sent

\* one iteration of  for binding, consumer := range self.consumers
EX_Range(t) ==
    /\ rPc[t] = "range"
    /\ \E binding \in rTodo[t] :
        LET consumer == exConsumers[binding]
            matched == /\ ~alreadySent(rSent[t], consumer)
                       /\ Matches(exMatcher, rMsg[t], BindingKey(binding))
        IN /\ rTodo' = [rTodo EXCEPT ![t] = @ \ {binding}]
           /\ rGot' = IF matched
                      THEN [rGot EXCEPT ![t][consumer] = @ + 1]
                      ELSE rGot
           /\ rSent' = [rSent EXCEPT ![t] = sentAfter(@, consumer, matched)]
    /\ UNCHANGED <<outsideExchange, exMatcher, exConsumers, mu, rPc, rMsg, rSeen, binderVars>>

\* the range loop is over: deferred self.mu.RUnlock(), return
EX_RUnlock(t) ==
    /\ rPc[t] = "range"
    /\ rTodo[t] = {}
    /\ mu' = [mu EXCEPT !.readers = @ \ {t}]
    /\ rPc' = [rPc EXCEPT ![t] = "idle"]
    /\ rSent' = [rSent EXCEPT ![t] = {}]
    /\ rGot' = [rGot EXCEPT ![t] = noDeliveries]
    /\ rSeen' = [rSeen EXCEPT ![t] = emptyTable]
    /\ UNCHANGED <<outsideExchange, exMatcher, exConsumers, rMsg, rTodo, binderVars>>

(***************************************************************************)
(* Exchange.BindTo / Exchange.UnbindFrom                                   *)
(***************************************************************************)
\* self.mu.Lock(): no other writer has the lock or waits for it
EX_Lock(t, bind, binding) ==
    /\ wPc[t] = "idle"
    /\ mu.writer = NoThread
    /\ mu' = [mu EXCEPT !.writer = t]
    /\ wOp' = [wOp EXCEPT ![t] = [bind |-> bind, binding |-> binding]]
    /\ wErr' = [wErr EXCEPT ![t] = ErrNone]
    /\ wPc' = [wPc EXCEPT ![t] = IF lockFree(mu) THEN "in" ELSE "lock"]
    /\ UNCHANGED <<outsideExchange, exMatcher, exConsumers, routerVars>>

\* the last reader inside has left: Lock() returns
EX_LockAcquired(t) ==
    /\ wPc[t] = "lock"
    /\ lockFree(mu)
    /\ wPc' = [wPc EXCEPT ![t] = "in"]
    /\ UNCHANGED <<outsideExchange, exMatcher, exConsumers, mu, routerVars, wOp, wErr>>

\* BindTo that overwrites
bindToOverwrite(consumers, binding) ==
    [err |-> ErrNone,
     consumers |-> [b \in DOMAIN consumers \cup {binding} |-> Consumer(b)]]

bindTo(consumers, binding) ==
    IF binding \in DOMAIN consumers
    THEN [err |-> ErrAlreadyBound, consumers |-> consumers]
    ELSE [err |-> ErrNone,
          consumers |-> [b \in DOMAIN consumers \cup {binding} |->
                            IF b = binding THEN Consumer(binding) ELSE consumers[b]]]

\* UnbindFrom that reports no error for a binding it does not hold
unbindFromSilent(consumers, binding) ==
    [err |-> ErrNone,
     consumers |-> [b \in DOMAIN consumers \ {binding} |-> consumers[b]]]

unbindFrom(consumers, binding) ==
    IF binding \notin DOMAIN consumers
    THEN [err |-> ErrBindingNotFound, consumers |-> consumers]
    ELSE [err |-> ErrNone,
          consumers |-> [b \in DOMAIN consumers \ {binding} |-> consumers[b]]]

\* deferred self.mu.Unlock(), return: every reader that waited is let in
Unlock(t, res) ==
    /\ exConsumers' = res.consumers
    /\ wErr' = [wErr EXCEPT ![t] = res.err]
    /\ wOp' = [wOp EXCEPT ![t] = NoBindingOp]
    /\ wPc' = [wPc EXCEPT ![t] = "idle"]
    /\ mu' = [readers |-> mu.blocked, blocked |-> {}, writer |-> NoThread]
    /\ rPc' = [r \in Routers |-> IF r \in mu.blocked THEN "range" ELSE rPc[r]]
    /\ rTodo' = [r \in Routers |-> IF r \in mu.blocked THEN DOMAIN res.consumers ELSE rTodo[r]]
    /\ rSeen' = [r \in Routers |-> IF r \in mu.blocked THEN res.consumers ELSE rSeen[r]]
    /\ UNCHANGED <<outsideExchange, exMatcher, rMsg, rSent, rGot>>

EX_BindTo(t) ==
    /\ wPc[t] = "in"
    /\ wOp[t].bind
    /\ Unlock(t, bindTo(exConsumers, wOp[t].binding))

EX_UnbindFrom(t) ==
    /\ wPc[t] = "in"
    /\ ~wOp[t].bind
    /\ Unlock(t, unbindFrom(exConsumers, wOp[t].binding))

ExNext ==
    \/ \E t \in Routers, key \in ExKeys : EX_RLock(t, key)
    \/ \E t \in Routers : EX_Range(t)
    \/ \E t \in Routers : EX_RUnlock(t)
    \/ \E t \in Binders, bind \in BOOLEAN, binding \in Bindings : EX_Lock(t, bind, binding)
    \/ \E t \in Binders : EX_LockAcquired(t)
    \/ \E t \in Binders : EX_BindTo(t)
    \/ \E t \in Binders : EX_UnbindFrom(t)

\* NewExchange(matcher.Direct) or NewExchange(matcher.Fanout)
ExInit ==
    /\ NewQueue
    /\ LenInit
    /\ MatcherInit(<<>>, <<>>)
    /\ NewHandler("fifo")
    /\ newRoundRobinHandler
    /\ \E matcher \in Matchers : NewExchange(matcher)

ExSpec == ExInit /\ [][ExNext]_vars

(***************************************************************************)
(* topicMatchFunc: the binding key is rewritten into a regular expression  *)
(* by six strings.Replace passes.  A pattern is kept as a sequence of      *)
(* tokens: a character of the key that no pass has touched, or the text a  *)
(* pass has put in.  No inserted text holds a '#' or ends in a backslash,  *)
(* so a later pass never matches inside or across an earlier insertion.    *)
(***************************************************************************)
EscDot == "\\."                                     \* \.
OneWord == "[0-9A-z]+"
HashBetween == "(\\.|\\.[0-9A-z\\.]*\\.)"
HashAfterDot == "(\\.[0-9A-z\\.]*)?"
HashBeforeDot == "([0-9A-z\\.]*\\.)?"
HashAlone == "[0-9A-z\\.]*"

\* strings.Replace(s, old, new, -1): leftmost non-overlapping occurrences
RECURSIVE Replace(_, _, _)
Replace(s, old, new) ==
    IF Len(s) < Len(old) THEN s
    ELSE IF SubSeq(s, 1, Len(old)) = old
         THEN <<new>> \o Replace(SubSeq(s, Len(old) + 1, Len(s)), old, new)
         ELSE <<Head(s)>> \o Replace(Tail(s), old, new)

compile(key) ==
    LET p1 == Replace(key, <<".">>, EscDot)
        p2 == Replace(p1, <<"*">>, OneWord)
        p3 == Replace(p2, <<EscDot, "#", EscDot>>, HashBetween)
        p4 == Replace(p3, <<EscDot, "#">>, HashAfterDot)
        p5 == Replace(p4, <<"#", EscDot>>, HashBeforeDot)
    IN Replace(p5, <<"#">>, HashAlone)

(***************************************************************************)
(* regexp.MatchString of ^pattern$ on the characters of the model: 'k' is  *)
(* in the class [0-9A-z], '-' is not, '.' is in [0-9A-z\.] only.           *)
(***************************************************************************)
inWord(c) == c = "k"
inWordOrDot(c) == inWord(c) \/ c = "."
allIn(s, from, to, dots) ==
    \A i \in from..to : IF dots THEN inWordOrDot(s[i]) ELSE inWord(s[i])
after(s, n) == SubSeq(s, n + 1, Len(s))

RECURSIVE MatchString(_, _)
MatchString(p, s) ==
    IF p = <<>> THEN s = <<>>
    ELSE LET tok == Head(p)
             rest == Tail(p)
         IN CASE tok = EscDot ->
                    s # <<>> /\ Head(s) = "." /\ MatchString(rest, Tail(s))
              [] tok = OneWord ->
                    \E n \in 1..Len(s) : allIn(s, 1, n, FALSE) /\ MatchString(rest, after(s, n))
              [] tok = HashAlone ->
                    \E n \in 0..Len(s) : allIn(s, 1, n, TRUE) /\ MatchString(rest, after(s, n))
              [] tok = HashBetween ->
                    \/ s # <<>> /\ Head(s) = "." /\ MatchString(rest, Tail(s))
                    \/ \E n \in 2..Len(s) :
                        /\ s[1] = "." /\ s[n] = "." /\ allIn(s, 2, n - 1, TRUE)
                        /\ MatchString(rest, after(s, n))
              [] tok = HashAfterDot ->
                    \/ MatchString(rest, s)
                    \/ \E n \in 1..Len(s) :
                        /\ s[1] = "." /\ allIn(s, 2, n, TRUE)
                        /\ MatchString(rest, after(s, n))
              [] tok = HashBeforeDot ->
                    \/ MatchString(rest, s)
                    \/ \E n \in 1..Len(s) :
                        /\ s[n] = "." /\ allIn(s, 1, n - 1, TRUE)
                        /\ MatchString(rest, after(s, n))
              [] OTHER ->
                    s # <<>> /\ Head(s) = tok /\ MatchString(rest, Tail(s))

(***************************************************************************)
(* Matches calls on one binding key and one routing key.                   *)
(***************************************************************************)
\* matcher.Direct.Matches(msg, binding)
M_Direct ==
    /\ mRes' = [matcher |-> "direct", cached |-> FALSE,
                value |-> directMatchFunc(mRoute, mKey)]
    /\ mRes' # mRes
    /\ UNCHANGED <<outsideMatcher, cacheVars, mKey, mRoute, patternCache, mPublish>>

\* matcher.Topic.Matches(msg, binding), under patternCache.RLock: the cached
\* pattern when there is one, else a fresh one, handed to a goroutine that
\* will publish it
M_Topic ==
    /\ IF mKey \in DOMAIN patternCache
       THEN /\ mRes' = [matcher |-> "topic", cached |-> TRUE,
                        value |-> MatchString(patternCache[mKey], mRoute)]
            /\ UNCHANGED mPublish
       ELSE LET matcher == compile(mKey) IN
            /\ mRes' = [matcher |-> "topic", cached |-> FALSE,
                        value |-> MatchString(matcher, mRoute)]
            /\ mPublish' = mPublish \cup {<<mKey, matcher>>}
    /\ <<mRes, mPublish>>' # <<mRes, mPublish>>
    /\ UNCHANGED <<outsideMatcher, cacheVars, mKey, mRoute, patternCache>>

\* go func() { patternCache.Lock(); patternCache.cache[binding.Key] = matcher }()
M_Publish ==
    /\ \E job \in mPublish :
        /\ mPublish' = mPublish \ {job}
        /\ patternCache' = [key \in DOMAIN patternCache \cup {job[1]} |->
                                IF key = job[1] THEN job[2] ELSE patternCache[key]]
    /\ UNCHANGED <<outsideMatcher, cacheVars, mKey, mRoute, mRes>>

MatchNext == M_Direct \/ M_Topic \/ M_Publish

MatchInit ==
    /\ NewQueue
    /\ LenInit
    /\ NewExchange("direct")
    /\ NewHandler("fifo")
    /\ newRoundRobinHandler
    /\ \E bindingKey \in BindingKeys, routingKey \in RoutingKeys :
            MatcherInit(bindingKey, routingKey)

MatchSpec == MatchInit /\ [][MatchNext]_vars

(***************************************************************************)
(* topicMatchFunc called concurrently: patternCache.RLock around the       *)
(* lookup, a goroutine per miss that takes patternCache.Lock and stores    *)
(* the compiled pattern.  The RWMutex is the one of Exchange.mu.           *)
(***************************************************************************)
CacheKeys == {<<"k">>, <<"#">>}
CacheChars == {"k", "-"}
CacheRoutes == UNION {[1..n -> CacheChars] : n \in 0..MaxCacheRoute}

\* patternCache.RLock()
T_RLock(t, key, route) ==
    /\ tPc[t] = "idle"
    /\ tKey' = [tKey EXCEPT ![t] = key]
    /\ tRoute' = [tRoute EXCEPT ![t] = route]
    /\ IF cacheMu.writer = NoJob
       THEN /\ cacheMu' = [cacheMu EXCEPT !.readers = @ \cup {t}]
            /\ tPc' = [tPc EXCEPT ![t] = "locked"]
       ELSE /\ cacheMu' = [cacheMu EXCEPT !.blocked = @ \cup {t}]
            /\ tPc' = [tPc EXCEPT ![t] = "rlock"]
    /\ UNCHANGED <<outsideMatcher, mKey, mRoute, mRes, patternCache, mPublish, tRes>>

\* a cache indexed by the routing key
cacheKeyRouting(bindingKey, routingKey) == routingKey

\* patternCache.cache[binding.Key]
cacheKey(bindingKey, routingKey) == bindingKey

\* regexp.MustCompile and Regexp.MatchString, tabulated for the callers' keys
\* and routing keys
mustCompile == [key \in CacheKeys |-> compile(key)]
matchString ==
    [p \in {mustCompile[key] : key \in CacheKeys}, r \in CacheRoutes |-> MatchString(p, r)]

\* the body of topicMatchFunc: the cached pattern, or a fresh one and  go func()
T_Lookup(t) ==
    /\ tPc[t] = "locked"
    /\ LET key == cacheKey(tKey[t], tRoute[t]) IN
       IF key \in DOMAIN patternCache
       THEN /\ tRes' = [tRes EXCEPT ![t] =
                    [cached |-> TRUE, value |-> matchString[patternCache[key], tRoute[t]]]]
            /\ UNCHANGED mPublish
       ELSE LET matcher == mustCompile[tKey[t]] IN
            /\ tRes' = [tRes EXCEPT ![t] =
                    [cached |-> FALSE, value |-> matchString[matcher, tRoute[t]]]]
            /\ mPublish' = mPublish \cup {<<key, matcher>>}
    /\ tPc' = [tPc EXCEPT ![t] = "found"]
    /\ UNCHANGED <<outsideMatcher, mKey, mRoute, mRes, patternCache, cacheMu, tKey, tRoute>>

\* deferred patternCache.RUnlock(); the call returns its answer
T_RUnlock(t) ==
    /\ tPc[t] = "found"
    /\ cacheMu' = [cacheMu EXCEPT !.readers = @ \ {t}]
    /\ tPc' = [tPc EXCEPT ![t] = "idle"]
    /\ tKey' = [tKey EXCEPT ![t] = <<>>]
    /\ tRoute' = [tRoute EXCEPT ![t] = <<>>]
    /\ tRes' = [tRes EXCEPT ![t] = NoAnswer]
    /\ UNCHANGED <<outsideMatcher, mKey, mRoute, mRes, patternCache, mPublish>>

\* a publishing goroutine calls patternCache.Lock()
P_Lock(job) ==
    /\ job \in mPublish
    /\ cacheMu.writer = NoJob
    /\ mPublish' = mPublish \ {job}
    /\ cacheMu' = [cacheMu EXCEPT !.writer = job]
    /\ UNCHANGED <<outsideMatcher, mKey, mRoute, mRes, patternCache, tPc, tKey, tRoute, tRes>>

\* a Lock() that returns while readers hold the lock
lockGrantedEarly(m) == m.writer # NoJob

\* patternCache.Lock() returns: the readers that were inside have left
lockGranted(m) == m.writer # NoJob /\ m.readers = {}

\* patternCache.cache[binding.Key] = matcher, deferred patternCache.Unlock()
P_Store ==
    /\ lockGranted(cacheMu)
    /\ patternCache' = [key \in DOMAIN patternCache \cup {cacheMu.writer[1]} |->
                            IF key = cacheMu.writer[1]
                            THEN cacheMu.writer[2]
                            ELSE patternCache[key]]
    /\ cacheMu' = [readers |-> cacheMu.blocked, blocked |-> {}, writer |-> NoJob]
    /\ tPc' = [t \in Callers |-> IF t \in cacheMu.blocked THEN "locked" ELSE tPc[t]]
    /\ UNCHANGED <<outsideMatcher, mKey, mRoute, mRes, mPublish, tKey, tRoute, tRes>>

CacheNext ==
    \/ \E t \in Callers, key \in CacheKeys, route \in CacheRoutes : T_RLock(t, key, route)
    \/ \E t \in Callers : T_Lookup(t)
    \/ \E t \in Callers : T_RUnlock(t)
    \/ \E job \in mPublish : P_Lock(job)
    \/ P_Store

CacheSpec == Init /\ [][CacheNext]_vars

\* the publications the callers can start
CacheJobs ==
    {<<cacheKey(key, route), mustCompile[key]>> : key \in CacheKeys, route \in CacheRoutes}

\* goroutines inside topicMatchFunc keep running; a goroutine blocked in
\* Lock() gets the lock in its turn (sync.Mutex hands over to waiters)
CacheFairSpec ==
    /\ CacheSpec
    /\ \A t \in Callers : WF_vars(T_Lookup(t)) /\ WF_vars(T_RUnlock(t))
    /\ \A job \in CacheJobs : SF_vars(P_Lock(job))
    /\ WF_vars(P_Store)

(***************************************************************************)
(* heapImpl and pqHandler: a binary heap in a slice, maintained by         *)
(* container/heap (Push: append, up; Pop: swap root and last, down, drop   *)
(* the last).  Indices are the slice's, from 0.                            *)
(***************************************************************************)
at(h, i) == h[i + 1]

\* an order that looks at the priority only
LessByPriority(h, i, j) == at(h, i).priority > at(h, j).priority

Less(h, i, j) ==
    LET l == at(h, i)
        r == at(h, j)
    IN  IF l.priority = r.priority
        THEN l.timestamp < r.timestamp
        ELSE l.priority > r.priority

Swap(h, i, j) ==
    [k \in DOMAIN h |-> IF k = i + 1 THEN at(h, j) ELSE IF k = j + 1 THEN at(h, i) ELSE h[k]]

\* Go's / truncates towards zero: the parent of the root is the root
parent(j) == IF j = 0 THEN 0 ELSE (j - 1) \div 2

RECURSIVE up(_, _)
up(h, j) ==
    LET i == parent(j) IN
    IF i = j \/ ~Less(h, j, i) THEN h ELSE up(Swap(h, i, j), i)

RECURSIVE down(_, _, _)
down(h, i, n) ==
    LET j1 == 2 * i + 1 IN
    IF j1 >= n THEN h
    ELSE LET j == IF j1 + 1 < n /\ Less(h, j1 + 1, j1) THEN j1 + 1 ELSE j1 IN
         IF ~Less(h, j, i) THEN h ELSE down(Swap(h, i, j), j, n)

heapPush(h, x) == up(Append(h, x), Len(h))

heapPop(h) ==
    LET n == Len(h) - 1
        sifted == down(Swap(h, 0, n), 0, n)
    IN  [rest |-> SubSeq(sifted, 1, n), value |-> at(sifted, n)]

\* the QueueHandler interface over the two implementations
hLen(kind, h) == IF kind = "fifo" THEN qLen(h) ELSE Len(h)
hAdd(kind, h, msg) == IF kind = "fifo" THEN qAdd(h, msg) ELSE heapPush(h, msg)
hPeek(kind, h) == IF kind = "fifo" THEN qPeek(h) ELSE at(h, 0)
hRemove(kind, h) == IF kind = "fifo" THEN qRemove(h) ELSE heapPop(h).rest
\* the message a Remove takes out of the store
hLeaves(kind, h) == IF kind = "fifo" THEN qPeek(h) ELSE heapPop(h).value

PeekOnEmpty == "queue: Peek() called on empty queue"
RemoveOnEmpty == "queue: Remove() called on empty queue"

\* a call on an empty store that returns the zero value
returnsNil(op, message) == [op |-> op, msg |-> NilMessage, panic |-> NoPanic]

panics(op, message) == [op |-> op, msg |-> NilMessage, panic |-> message]

returns(op, msg) == [op |-> op, msg |-> msg, panic |-> NoPanic]

addsOf(log) == SelectSeq(log, LAMBDA e : e.op = "Add")
removesOf(log) == SelectSeq(log, LAMBDA e : e.op = "Remove")

H_Add(msg) ==
    /\ Len(addsOf(hLog)) < MaxAdds
    /\ hStore' = hAdd(hKind, hStore, msg)
    /\ hLog' = Append(hLog, [op |-> "Add", msg |-> msg])
    /\ hLast' = returns("Add", msg)
    /\ UNCHANGED <<outsideHandler, hKind>>

H_Peek ==
    /\ hLast' = IF hLen(hKind, hStore) = 0
                THEN panics("Peek", PeekOnEmpty)
                ELSE returns("Peek", hPeek(hKind, hStore))
    /\ UNCHANGED <<outsideHandler, hKind, hStore, hLog>>

H_Remove ==
    /\ IF hLen(hKind, hStore) = 0
       THEN /\ hLast' = panics("Remove", RemoveOnEmpty)
            /\ UNCHANGED <<hStore, hLog>>
       ELSE /\ hStore' = hRemove(hKind, hStore)
            /\ hLog' = Append(hLog, [op |-> "Remove", msg |-> hLeaves(hKind, hStore)])
            /\ hLast' = returns("Remove", NilMessage)
    /\ UNCHANGED <<outsideHandler, hKind>>

HandlerNext ==
    \/ \E msg \in HandlerMsgs : H_Add(msg)
    \/ H_Peek
    \/ H_Remove

HandlerInit ==
    /\ NewQueue
    /\ LenInit
    /\ NewExchange("direct")
    /\ MatcherInit(<<>>, <<>>)
    /\ newRoundRobinHandler
    /\ \E kind \in HandlerKinds : NewHandler(kind)

HandlerSpec == HandlerInit /\ [][HandlerNext]_vars

(***************************************************************************)
(* consumerRoundRobin called directly: Add, Remove, Next.  Next on a nil   *)
(* ring dereferences nil, in the return expression and again in the        *)
(* deferred assignment: the call panics and the ring stays nil.            *)
(***************************************************************************)
Next_(r, h) ==
    IF r.ring = NilNode
    THEN [panic |-> TRUE, consumer |-> NoConsumer, rr |-> r]
    ELSE [panic |-> FALSE, consumer |-> rrNext(r, h).consumer, rr |-> rrNext(r, h).rr]

R_Add(consumer) ==
    /\ Len(robinLog) < MaxCalls
    /\ LET res == rrAdd(robin, robinHeap, consumer) IN
        /\ robin' = res.rr
        /\ robinHeap' = res.heap
        /\ robinLog' = Append(robinLog,
                [op |-> "Add", consumer |-> consumer, err |-> res.err, panic |-> FALSE,
                 len |-> rrLen(res.rr)])
    /\ UNCHANGED outsideRobin

R_Remove(consumer) ==
    /\ Len(robinLog) < MaxCalls
    /\ LET res == rrRemove(robin, robinHeap, consumer) IN
        /\ robin' = res.rr
        /\ robinHeap' = res.heap
        /\ robinLog' = Append(robinLog,
                [op |-> "Remove", consumer |-> consumer, err |-> res.err, panic |-> FALSE,
                 len |-> rrLen(res.rr)])
    /\ UNCHANGED outsideRobin

R_Next ==
    /\ Len(robinLog) < MaxCalls
    /\ LET res == Next_(robin, robinHeap) IN
        /\ robin' = res.rr
        /\ robinLog' = Append(robinLog,
                [op |-> "Next", consumer |-> res.consumer, err |-> ErrNone, panic |-> res.panic,
                 len |-> rrLen(res.rr)])
    /\ UNCHANGED <<outsideRobin, robinHeap>>

RobinNext ==
    \/ \E consumer \in RobinConsumers : R_Add(consumer)
    \/ \E consumer \in RobinConsumers : R_Remove(consumer)
    \/ R_Next

RobinSpec == Init /\ [][RobinNext]_vars

(***************************************************************************)
(* Derived quantities.                                                     *)
(***************************************************************************)
deliveredMsgs == [i \in 1..Len(delivered) |-> delivered[i][2]]
deliveredTo(c) == Cardinality({i \in 1..Len(delivered) : delivered[i][1] = c})
IsPrefix(s, t) == Len(s) <= Len(t) /\ \A i \in 1..Len(s) : s[i] = t[i]
deliveredSince(n) == {delivered[i] : i \in (n + 1)..Len(delivered)}

(***************************************************************************)
(* The shutdown was graceful, at least one consumer was subscribed when    *)
(* Close() was called and no Subscribe / Unsubscribe succeeded since.      *)
(***************************************************************************)
GracefulWithSubscribers == ~force /\ rr.consumers # {} /\ ~changed

(***************************************************************************)
(* C1. Graceful close flushes: when Close() has returned, with at least    *)
(* one consumer subscribed, no membership change and no message accepted   *)
(* after the call, the deliveries made since the call are exactly the K    *)
(* messages that were accepted and undelivered at the call (K = closeAcc - *)
(* closeDel), each made to a subscribed consumer.                          *)
(***************************************************************************)
C1_CloseFlushesExactlyK ==
    (clPc = "done" /\ GracefulWithSubscribers /\ Len(accepted) = closeAcc)
        => /\ Len(delivered) - closeDel = closeAcc - closeDel
           /\ \A d \in deliveredSince(closeDel) : d[1] \in rr.consumers

(***************************************************************************)
(* C2. Round-robin fairness: N consumers subscribed, then M messages       *)
(* passed to Consume by the one producer (all accepted after the last      *)
(* membership change), then Close(): when Close() has returned every       *)
(* subscribed consumer has floor(M/N) or ceil(M/N) deliveries and the      *)
(* counts sum to M.                                                        *)
(***************************************************************************)
RECURSIVE sumDeliveredTo(_)
sumDeliveredTo(S) ==
    IF S = {} THEN 0
    ELSE LET c == CHOOSE x \in S : TRUE IN deliveredTo(c) + sumDeliveredTo(S \ {c})

C2_RoundRobinFair ==
    (clPc = "done" /\ GracefulWithSubscribers /\ subAcc = 0 /\ Len(accepted) = closeAcc)
        => LET N == rrLen(rr)
               M == Len(accepted)
           IN /\ \A c \in rr.consumers :
                    /\ deliveredTo(c) >= M \div N
                    /\ deliveredTo(c) <= (M + N - 1) \div N
              /\ sumDeliveredTo(rr.consumers) = M

(***************************************************************************)
(* C3. After Unsubscribe(c) has returned nil, no Consume of c is invoked   *)
(* by the queue until a Subscribe(c) succeeds: every step that makes a     *)
(* delivery makes it to a consumer outside `removed`.                      *)
(***************************************************************************)
C3_NoDeliveryAfterUnsubscribe ==
    [][Len(delivered') > Len(delivered)
        => delivered'[Len(delivered')][1] \notin removed]_vars

(***************************************************************************)
(* C4 as stated. Forced close drops: once ForceClose() has been called no  *)
(* delivery is made, the ingestion loop hands nothing off and does not     *)
(* close the handoff channel.                                              *)
(***************************************************************************)
C4_NoDeliveryOnceForceCloseCalled ==
    [][(force /\ clPc # "idle")
        => (delivered' = delivered /\ handed' = handed /\ ~outputClosed')]_vars

(***************************************************************************)
(* C4 amended. Once either loop has received the ForceClose signal (the    *)
(* first send over quit has completed) no message is handed off and no     *)
(* delivery is made, whether or not consumers are subscribed, and the      *)
(* handoff channel is never closed.                                        *)
(***************************************************************************)
C4_NoHandoffOnceForceSignalReceived ==
    [][(force /\ clPc \notin {"idle", "quit1"})
        => (delivered' = delivered /\ handed' = handed /\ ~outputClosed')]_vars

\* ForceClose() has returned with messages left in the store, consumers subscribed
C4_Witness ==
    force /\ clPc = "done" /\ qLen(store) > 0 /\ rr.consumers # {} /\ ~outputClosed

(***************************************************************************)
(* C5. Close with no subscribers discards: with zero subscribers (and no   *)
(* Subscribe succeeding meanwhile) no delivery is made after Close() is    *)
(* called, Close() returns, and when it has returned every accepted        *)
(* message has been handed off and the handoff channel is closed.          *)
(***************************************************************************)
NoSubscribersClose == ~force /\ rr.consumers = {} /\ ~changed

C5_CloseWithoutSubscribersDiscards ==
    /\ []((clPc # "idle" /\ NoSubscribersClose) => Len(delivered) = closeDel)
    /\ []((clPc = "done" /\ NoSubscribersClose)
            => (qLen(store) = 0 /\ outputClosed /\ handed = accepted))
    /\ ((clPc = "quit1" /\ ~force /\ rr.consumers = {}) ~> (clPc = "done"))

\* Close() has returned, K > 0 messages were buffered at the call, none delivered
C5_Witness ==
    /\ clPc = "done" /\ NoSubscribersClose
    /\ closeAcc > closeDel
    /\ Len(delivered) = closeDel

(***************************************************************************)
(* C6. Close() and ForceClose() terminate: the two shutdown signals are    *)
(* received one by each loop, and under fair scheduling the call returns.  *)
(***************************************************************************)
C6_CloseTerminates ==
    /\ [](clPc \in {"cnf1", "cnf2", "done"}
            => /\ ihPc \in {"drain", "cnf", "done"}
               /\ ohPc \in {"flush", "flushConsume", "discard", "cnf", "done"})
    /\ ((clPc = "quit1") ~> (clPc = "done"))

\* a graceful Close() has returned after a flush of buffered messages
C6_Witness == clPc = "done" /\ ~force /\ Len(delivered) > closeDel /\ closeAcc > closeDel

(***************************************************************************)
(* C7. When Close() / ForceClose() has returned both loops have            *)
(* terminated: from then on nothing is handed off, no Consume is invoked,  *)
(* and the store and the ring are not touched.                             *)
(***************************************************************************)
C7_LoopsStoppedAfterReturn ==
    /\ [](clPc = "done" => (ihPc = "done" /\ ohPc = "done"))
    /\ [][clPc = "done"
            => UNCHANGED <<store, outputClosed, rr, heap, handed, delivered>>]_vars

C7_Witness == clPc = "done" /\ Len(delivered) > 0 /\ qLen(store) > 0

(***************************************************************************)
(* C8. While the queue is open every Consume(msg) call returns, with msg   *)
(* added to the store, whatever the dispatch side does.                    *)
(***************************************************************************)
C8_ConsumeReturns ==
    /\ \A p \in Producers :
            (prodPc[p] = "send") ~> (prodPc[p] = "idle" \/ clPc # "idle")
    /\ [][\A p \in Producers :
            (prodPc[p] = "send" /\ prodPc'[p] = "idle")
                => /\ qLen(store') = qLen(store) + 1
                   /\ \E i \in 1..Len(store') : store'[i] = prodMsg[p]]_vars

\* every Consume call has returned on an open queue without subscribers
C8_Witness ==
    /\ clPc = "idle" /\ rr.consumers = {}
    /\ qLen(store) = MaxMsgs
    /\ \A p \in Producers : prodPc[p] = "idle"

(***************************************************************************)
(* C9. Delivery order: messages are handed off in the order the store      *)
(* yields them, consumers are invoked in that order, and with the FIFO     *)
(* store and the one producer the sequence of deliveries follows the       *)
(* sequence of Consume calls (message i is the i-th call).                 *)
(***************************************************************************)
C9_DeliveryOrder ==
    /\ IsPrefix(handed, accepted)
    /\ IsPrefix(deliveredMsgs, handed)
    /\ \A i \in 1..Len(delivered) : deliveredMsgs[i] = i

(***************************************************************************)
(* C10. Subscribe(c) with c present answers ConsumerAlreadySubscribed and  *)
(* leaves members, rotation order and position unchanged; with c absent it *)
(* answers nil and c becomes a member (Len grows by one).                  *)
(***************************************************************************)
C10_SubscribeTwice ==
    [][\A a \in Clients :
        (cliPc[a] = "idle" /\ cliPc'[a] = "wait" /\ cliOp'[a].subscribe)
            => IF cliOp'[a].consumer \in rr.consumers
               THEN /\ cliRes'[a] = ErrConsumerAlreadySubscribed
                    /\ rr' = rr
                    /\ heap' = heap
               ELSE /\ cliRes'[a] = ErrNone
                    /\ rr'.consumers = rr.consumers \cup {cliOp'[a].consumer}
                    /\ rrLen(rr') = rrLen(rr) + 1]_vars

\* a Subscribe of a subscribed consumer is being answered
C10_Witness ==
    \E a \in Clients : cliPc[a] = "wait" /\ cliRes[a] = ErrConsumerAlreadySubscribed

(***************************************************************************)
(* C11. Unsubscribe(c) with c not subscribed answers ConsumerNotFound and  *)
(* leaves the members, the ring and the position unchanged: on a queue     *)
(* with no subscribers at all, with other consumers subscribed, and on the *)
(* second of two consecutive Unsubscribe(c).                               *)
(***************************************************************************)
C11_UnsubscribeAbsent ==
    [][\A a \in Clients :
        (cliPc[a] = "idle" /\ cliPc'[a] = "wait" /\ ~cliOp'[a].subscribe
            /\ cliOp'[a].consumer \notin rr.consumers)
            => /\ cliRes'[a] = ErrConsumerNotFound
               /\ rr' = rr
               /\ heap' = heap]_vars

\* the second of two consecutive Unsubscribe(c) is being answered
C11_Witness ==
    \E a \in Clients :
        /\ cliPc[a] = "wait" /\ ~cliOp[a].subscribe
        /\ cliRes[a] = ErrConsumerNotFound
        /\ cliOp[a].consumer \in removed

(***************************************************************************)
(* C12. Len() returns the number of messages accepted and not yet handed   *)
(* to the dispatch loop; on an open queue that never had a subscriber that *)
(* is the number of Consume calls that have returned (0 on a new queue).   *)
(***************************************************************************)
\* no Subscribe has ever succeeded
NeverSubscribed ==
    /\ rr.consumers = {}
    /\ removed = {}
    /\ \A a \in Clients : cliPc[a] = "wait" => cliRes[a] # ErrNone

returnedCalls == (nextMsg - 1) - Cardinality({p \in Producers : prodPc[p] = "send"})

C12_LenCountsBuffered ==
    [][lenTick' # lenTick
        => /\ lenRes' = Len(accepted) - Len(handed)
           /\ (NeverSubscribed /\ clPc = "idle") => lenRes' = returnedCalls]_vars

\* Len() answered MaxMsgs after MaxMsgs Consume calls, no subscriber ever
C12_Witness ==
    /\ lenTick /\ lenRes = MaxMsgs /\ returnedCalls = MaxMsgs
    /\ NeverSubscribed /\ clPc = "idle"

(***************************************************************************)
(* Exchange: derived quantities.                                           *)
(***************************************************************************)
\* the call of t has visited every binding and is about to return
rangeOver(t) == rPc[t] = "range" /\ rTodo[t] = {}

\* the registered bindings that resolve to c and match the message of t
routes(t, c) ==
    {b \in DOMAIN exConsumers :
        exConsumers[b] = c /\ Matches(exMatcher, rMsg[t], BindingKey(b))}

(***************************************************************************)
(* C13. Exchange dedup: within one Exchange.Consume call every consumer    *)
(* receives the message at most once, however many registered bindings     *)
(* match and resolve to it and in whatever order the table is iterated.    *)
(***************************************************************************)
C13_AtMostOncePerConsumer ==
    \A t \in Routers, c \in Consumers : rGot[t][c] <= 1

\* a call is over with three matching bindings of c1 (two of them with the
\* same key, the third with another key) and one delivery to c1
C13_Witness ==
    \E t \in Routers :
        /\ rangeOver(t)
        /\ {"b1", "b2", "b3"} \subseteq routes(t, "c1")
        /\ rGot[t]["c1"] = 1

(***************************************************************************)
(* C14. Exchange routing: a consumer receives the message of a Consume     *)
(* call only if a registered binding resolving to it matches, and when the *)
(* call is over it has received it if and only if there is such a binding; *)
(* with no bindings nothing is delivered and the call returns.             *)
(***************************************************************************)
C14_RoutesIffMatches ==
    \A t \in Routers, c \in Consumers :
        /\ rGot[t][c] >= 1 => routes(t, c) # {}
        /\ rangeOver(t) => (rGot[t][c] >= 1 <=> routes(t, c) # {})

\* under the direct matcher a call is over: c1 was bound with a matching and
\* a non-matching key and got the message, c2 was bound with a non-matching
\* key and got nothing
C14_Witness ==
    \E t \in Routers :
        /\ rangeOver(t) /\ exMatcher = "direct" /\ rMsg[t] = KeyK
        /\ {"b1", "b3", "b4"} \subseteq DOMAIN exConsumers
        /\ rGot[t]["c1"] = 1 /\ rGot[t]["c2"] = 0

(***************************************************************************)
(* C15. BindTo(b) with b registered returns AlreadyBound and leaves the    *)
(* table unchanged; with b not registered it returns nil and registers b   *)
(* with its consumer, leaving the other entries alone.  Bindings are       *)
(* compared by identity: b1 and b2 (same key, same consumer) are           *)
(* independent entries.                                                    *)
(***************************************************************************)
C15_BindTo ==
    [][\A t \in Binders :
        (wPc[t] = "in" /\ wPc'[t] = "idle" /\ wOp[t].bind)
            => LET b == wOp[t].binding IN
               IF b \in DOMAIN exConsumers
               THEN wErr'[t] = ErrAlreadyBound /\ exConsumers' = exConsumers
               ELSE /\ wErr'[t] = ErrNone
                    /\ DOMAIN exConsumers' = DOMAIN exConsumers \cup {b}
                    /\ exConsumers'[b] = Consumer(b)
                    /\ \A x \in DOMAIN exConsumers : exConsumers'[x] = exConsumers[x]]_vars

\* b1 and b2 are both registered and a second BindTo returned AlreadyBound
C15_Witness ==
    /\ {"b1", "b2"} \subseteq DOMAIN exConsumers
    /\ \E t \in Binders : wErr[t] = ErrAlreadyBound

(***************************************************************************)
(* C16. UnbindFrom(b) with b not registered returns BindingNotFound and    *)
(* leaves the table unchanged; with b registered it returns nil and        *)
(* removes exactly b, so that later calls route through the other bindings *)
(* only.                                                                   *)
(***************************************************************************)
C16_UnbindFrom ==
    [][\A t \in Binders :
        (wPc[t] = "in" /\ wPc'[t] = "idle" /\ ~wOp[t].bind)
            => LET b == wOp[t].binding IN
               IF b \notin DOMAIN exConsumers
               THEN wErr'[t] = ErrBindingNotFound /\ exConsumers' = exConsumers
               ELSE /\ wErr'[t] = ErrNone
                    /\ DOMAIN exConsumers' = DOMAIN exConsumers \ {b}
                    /\ \A x \in DOMAIN exConsumers' : exConsumers'[x] = exConsumers[x]]_vars

\* an UnbindFrom of an absent binding returned BindingNotFound while other
\* bindings stay registered
C16_Witness ==
    /\ DOMAIN exConsumers # {}
    /\ \E t \in Binders : wErr[t] = ErrBindingNotFound

(***************************************************************************)
(* C17. Exchange mutual exclusion: the table is modified only while no     *)
(* Consume call holds the read lock, so every call iterates over one fixed *)
(* table; a BindTo / UnbindFrom inside the lock is alone there; Consume    *)
(* calls may be inside together.                                           *)
(***************************************************************************)
writersInside == {t \in Binders : wPc[t] = "in"}

C17_MutualExclusion ==
    /\ [](\A t \in Routers : rPc[t] = "range" => (t \in mu.readers /\ exConsumers = rSeen[t]))
    /\ [](writersInside # {} => mu.readers = {})
    /\ [](Cardinality(writersInside) <= 1)
    /\ [][exConsumers' # exConsumers => mu.readers = {}]_vars

\* both Consume calls are inside while a writer waits for them
C17_Witness ==
    /\ mu.readers = Routers
    /\ \A t \in Routers : rPc[t] = "range" /\ rTodo[t] # {}
    /\ \E t \in Binders : wPc[t] = "lock"

(***************************************************************************)
(* C18. Exchange.Consume never waits on another Exchange.Consume: no       *)
(* Consume call is blocked in RLock while another Consume call is inside,  *)
(* whatever BindTo / UnbindFrom callers do.                                *)
(***************************************************************************)
C18_ConsumeNeverWaitsForConsume ==
    \A t \in Routers : rPc[t] = "rlock" => mu.readers = {}

(***************************************************************************)
(* Matchers: derived quantities.                                           *)
(***************************************************************************)
sameString(s, t) == Len(s) = Len(t) /\ \A i \in 1..Len(s) : s[i] = t[i]
startsWith(s, t) == Len(t) <= Len(s) /\ sameString(SubSeq(s, 1, Len(t)), t)
endsWith(s, t) == Len(t) <= Len(s) /\ sameString(SubSeq(s, Len(s) - Len(t) + 1, Len(s)), t)

\* s is A, then zero or more whole dot-delimited segments, then B
segmentsBetween(s, A, B) ==
    \/ sameString(s, A \o <<".">> \o B)
    \/ /\ Len(s) >= Len(A) + Len(B) + 2
       /\ startsWith(s, A \o <<".">>)
       /\ endsWith(s, <<".">> \o B)

(***************************************************************************)
(* C19. Direct matcher: Matches(msg, binding) is true if and only if the   *)
(* routing key and the binding key are the same string, character by       *)
(* character.                                                              *)
(***************************************************************************)
C19_DirectIsEquality ==
    mRes.matcher = "direct" => (mRes.value <=> sameString(mRoute, mKey))

\* "k" against "k.k" was refused
C19_Witness ==
    /\ mRes.matcher = "direct" /\ ~mRes.value
    /\ mKey = <<"k">> /\ mRoute = <<"k", ".", "k">>

(***************************************************************************)
(* C20. Topic matcher, '#' between segments: the binding key k.#.k matches *)
(* exactly the routing keys that are k, then zero or more whole            *)
(* dot-delimited segments, then k; #.k matches k (no prefix segment) and   *)
(* k.# matches k (no suffix segment).                                      *)
(***************************************************************************)
C20_HashBetweenSegments ==
    mRes.matcher = "topic"
        => /\ mKey = <<"k", ".", "#", ".", "k">>
                => (mRes.value <=> segmentsBetween(mRoute, <<"k">>, <<"k">>))
           /\ (mKey = <<"#", ".", "k">> /\ mRoute = <<"k">>) => mRes.value
           /\ (mKey = <<"k", ".", "#">> /\ mRoute = <<"k">>) => mRes.value

\* s is one non-empty segment: at least one character and no '.'
oneSegment(s) == Len(s) >= 1 /\ \A i \in 1..Len(s) : s[i] # "."

(***************************************************************************)
(* C21. Topic matcher, '*': in a binding key '*' matches exactly one       *)
(* non-empty segment at its position and never spans a '.'; a key without  *)
(* wildcards matches only itself.                                          *)
(***************************************************************************)
C21_StarIsOneSegment ==
    mRes.matcher = "topic"
        => /\ mKey = <<"*">> => (mRes.value <=> oneSegment(mRoute))
           /\ mKey = <<"*", ".", "k">>
                => (mRes.value <=> /\ endsWith(mRoute, <<".", "k">>)
                                   /\ oneSegment(SubSeq(mRoute, 1, Len(mRoute) - 2)))
           /\ mKey = <<"k", ".", "*", ".", "k">>
                => (mRes.value <=> /\ startsWith(mRoute, <<"k", ".">>)
                                   /\ endsWith(mRoute, <<".", "k">>)
                                   /\ oneSegment(SubSeq(mRoute, 3, Len(mRoute) - 2)))
           /\ mKey \in {<<>>, <<"k">>, <<"k", ".", "k">>}
                => (mRes.value <=> sameString(mRoute, mKey))

(***************************************************************************)
(* C22. Topic matcher, bare '#': the binding key # matches every routing   *)
(* key, the empty one included, whatever characters it holds.              *)
(***************************************************************************)
C22_HashMatchesEverything ==
    (mRes.matcher = "topic" /\ mKey = <<"#">>) => mRes.value

(***************************************************************************)
(* C23. The pattern cache is transparent: whatever the interleaving of     *)
(* concurrent Topic.Matches calls and publishing goroutines, a call's      *)
(* answer is the one the translation of its own binding key gives, from    *)
(* the cache or not; every cache entry, and every pattern on its way to    *)
(* the cache, is the translation of exactly its own key.                   *)
(***************************************************************************)
C23_CacheTransparent ==
    /\ \A t \in Callers :
            tPc[t] = "found" => tRes[t].value = MatchString(compile(tKey[t]), tRoute[t])
    /\ \A key \in DOMAIN patternCache : patternCache[key] = compile(key)
    /\ \A job \in mPublish \cup ({cacheMu.writer} \ {NoJob}) : job[2] = compile(job[1])

\* one call answers from the cache while the other compiles another key for
\* the first time, and the two answers differ
C23_Witness ==
    \E t, u \in Callers :
        /\ tPc[t] = "found" /\ tRes[t].cached
        /\ tPc[u] = "found" /\ ~tRes[u].cached
        /\ tKey[t] # tKey[u] /\ tRoute[t] = tRoute[u]
        /\ tRes[t].value # tRes[u].value

(***************************************************************************)
(* The messages a QueueHandler holds after the first n calls of its log.   *)
(***************************************************************************)
copies(log, n, op, msg) ==
    Cardinality({i \in 1..n : log[i].op = op /\ log[i].msg = msg})
buffered(log, n, msg) == copies(log, n, "Add", msg) - copies(log, n, "Remove", msg)
inStore(h, msg) == Cardinality({i \in DOMAIN h : h[i] = msg})

\* msg is buffered after n calls, none buffered then has a higher priority,
\* and none of its priority has an earlier timestamp
first(log, n, msg) ==
    /\ buffered(log, n, msg) > 0
    /\ \A other \in HandlerMsgs :
            buffered(log, n, other) > 0 =>
                \/ msg.priority > other.priority
                \/ msg.priority = other.priority /\ msg.timestamp <= other.timestamp

opsOf(log) == [i \in DOMAIN log |-> log[i].op]
prioritiesOf(log) == [i \in DOMAIN log |-> log[i].msg.priority]
timestampsOf(log) == [i \in DOMAIN log |-> log[i].msg.timestamp]

(***************************************************************************)
(* C24. Priority store: the heap slice holds exactly the messages added    *)
(* and not yet removed; Peek returns, and every Remove took out, a         *)
(* buffered message of the highest priority with the earliest timestamp    *)
(* among those; adding priorities 3,1,2 and draining gives 3,2,1; two      *)
(* messages of one priority leave in timestamp order whatever the order    *)
(* of their insertion.                                                     *)
(***************************************************************************)
C24_PriorityOrder ==
    hKind = "pq" =>
        /\ \A msg \in HandlerMsgs : inStore(hStore, msg) = buffered(hLog, Len(hLog), msg)
        /\ \A i \in DOMAIN hLog :
                hLog[i].op = "Remove" => first(hLog, i - 1, hLog[i].msg)
        /\ hLast.op = "Peek" /\ hLast.panic = NoPanic => first(hLog, Len(hLog), hLast.msg)
        /\ /\ opsOf(hLog) = <<"Add", "Add", "Add", "Remove", "Remove", "Remove">>
           /\ prioritiesOf(addsOf(hLog)) = <<3, 1, 2>>
           => prioritiesOf(removesOf(hLog)) = <<3, 2, 1>>
        /\ /\ opsOf(hLog) = <<"Add", "Add", "Remove", "Remove">>
           /\ hLog[1].msg.priority = hLog[2].msg.priority
           /\ hLog[1].msg.timestamp # hLog[2].msg.timestamp
           => timestampsOf(removesOf(hLog)) = <<1, 2>>

\* priorities 3,1,2 were added and drained, and a Remove on a heap of four
\* messages had to choose between the root's two children
C24_Witness ==
    /\ hKind = "pq"
    /\ \/ /\ opsOf(hLog) = <<"Add", "Add", "Add", "Remove", "Remove", "Remove">>
          /\ prioritiesOf(addsOf(hLog)) = <<3, 1, 2>>
          /\ hStore = <<>>
       \/ /\ opsOf(hLog) = <<"Add", "Add", "Add", "Add", "Remove">>
          /\ prioritiesOf(addsOf(hLog)) = <<1, 3, 2, 2>>
          /\ timestampsOf(addsOf(hLog)) = <<2, 1, 1, 2>>
          /\ hLast = returns("Peek", [priority |-> 2, timestamp |-> 1])

(***************************************************************************)
(* C25. FIFO store: whatever the interleaving of Add, Peek and Remove, the *)
(* messages removed so far followed by the messages still buffered are the *)
(* messages added, in the order of their insertion; Peek returns the       *)
(* oldest buffered message; Len() is the number of Adds minus the number   *)
(* of Removes, 0 for a new store and after everything has been removed.    *)
(***************************************************************************)
C25_FifoOrder ==
    hKind = "fifo" =>
        /\ [i \in DOMAIN addsOf(hLog) |-> addsOf(hLog)[i].msg]
                = [i \in DOMAIN removesOf(hLog) |-> removesOf(hLog)[i].msg] \o hStore
        /\ hLen(hKind, hStore) = Len(addsOf(hLog)) - Len(removesOf(hLog))
        /\ hLast.op = "Peek" /\ hLast.panic = NoPanic =>
                hLast.msg = addsOf(hLog)[Len(removesOf(hLog)) + 1].msg
        /\ Len(addsOf(hLog)) = Len(removesOf(hLog)) => hLen(hKind, hStore) = 0

\* Adds and Removes interleaved: a message was added between two Removes of
\* different messages, and one more is still buffered
C25_Witness ==
    /\ hKind = "fifo"
    /\ opsOf(hLog) = <<"Add", "Add", "Remove", "Add", "Remove">>
    /\ hLog[3].msg # hLog[5].msg
    /\ hLog[4].msg # hLog[2].msg
    /\ hLen(hKind, hStore) = 1
    /\ hLast.op = "Peek"

(***************************************************************************)
(* C26. Peek() and Remove() on an empty store, FIFO or priority, panic     *)
(* with "queue: Peek() called on empty queue" and "queue: Remove() called  *)
(* on empty queue"; they return nothing, and the store stays empty.  A     *)
(* Remove that returned took a message out.                                *)
(***************************************************************************)
C26_EmptyStorePanics ==
    /\ hLast.op = "Peek" /\ hLen(hKind, hStore) = 0 =>
            hLast = [op |-> "Peek", msg |-> NilMessage, panic |-> PeekOnEmpty]
    /\ hLast.op = "Remove" =>
            \/ /\ hLast = [op |-> "Remove", msg |-> NilMessage, panic |-> RemoveOnEmpty]
               /\ hStore = <<>>
               /\ Len(addsOf(hLog)) = Len(removesOf(hLog))
            \/ /\ hLast.panic = NoPanic
               /\ hLog # <<>>
               /\ hLog[Len(hLog)].op = "Remove"
    /\ hLast.panic # NoPanic => hStore = <<>>

\* a priority store that was filled and drained, then Remove() called on it
C26_Witness ==
    /\ hKind = "pq"
    /\ hLast.op = "Remove"
    /\ hLast.panic = RemoveOnEmpty
    /\ Len(hLog) = 4

(***************************************************************************)
(* The ring as its node cycle: the consumers met from the current position *)
(* by following next until the start comes round again.                    *)
(***************************************************************************)
RECURSIVE cycleFrom(_, _, _, _)
cycleFrom(h, start, n, acc) ==
    IF n = NilNode \/ (acc # <<>> /\ n = start)
    THEN acc
    ELSE cycleFrom(h, start, h[n].next, Append(acc, h[n].consumer))

cycle(r, h) == cycleFrom(h, r.ring, r.ring, <<>>)

(***************************************************************************)
(* C27. Ring membership: after any sequence of Add, Remove and Next the    *)
(* node cycle holds exactly the consumers of the membership set, each      *)
(* once: no consumer twice, no removed consumer reachable, and Len() is    *)
(* the number of nodes of the cycle.                                       *)
(***************************************************************************)
C27_RingIsMembership ==
    LET c == cycle(robin, robinHeap) IN
    /\ {c[i] : i \in DOMAIN c} = robin.consumers
    /\ \A i, j \in DOMAIN c : c[i] = c[j] => i = j
    /\ rrLen(robin) = Len(c)

\* Len() before the i-th call of the log
lenBefore(log, i) == IF i = 1 THEN 0 ELSE log[i - 1].len

(***************************************************************************)
(* C28. Next() on a ring whose Len() is 0 panics instead of returning a    *)
(* consumer, on a new ring and on a ring emptied again by Remove.          *)
(***************************************************************************)
C28_NextOnEmptyPanics ==
    \A i \in DOMAIN robinLog :
        robinLog[i].op = "Next" /\ lenBefore(robinLog, i) = 0 =>
            robinLog[i].panic /\ robinLog[i].consumer = NoConsumer

(***************************************************************************)
(* C29. Rotation: when c1..cn have been added to an empty ring and only    *)
(* Next is called afterwards, the i-th Next (i = 0, 1, ...) returns        *)
(* c[(i mod n) + 1].                                                       *)
(***************************************************************************)
C29_Rotation ==
    \A i \in DOMAIN robinLog, n \in 1..Cardinality(RobinConsumers) :
        /\ lenBefore(robinLog, i) = 0
        /\ i + n - 1 <= Len(robinLog)
        /\ \A k \in 0..(n - 1) :
                robinLog[i + k].op = "Add" /\ robinLog[i + k].err = ErrNone
        => \A j \in (i + n)..Len(robinLog) :
                (\A k \in (i + n)..j : robinLog[k].op = "Next") =>
                    /\ ~robinLog[j].panic
                    /\ robinLog[j].consumer = robinLog[i + ((j - (i + n)) % n)].consumer

\* the consumers the next k calls of Next() return
RECURSIVE serve(_, _, _)
serve(r, h, k) ==
    IF k = 0 \/ Next_(r, h).panic
    THEN <<>>
    ELSE <<Next_(r, h).consumer>> \o serve(Next_(r, h).rr, h, k - 1)

(***************************************************************************)
(* C30. Add(c) on a non-empty ring puts c immediately before the current   *)
(* position: from the current position, which does not move, every member  *)
(* the ring had is served once, in the order it was served before, and     *)
(* then c.                                                                 *)
(***************************************************************************)
C30_AddBeforeCurrent ==
    [][ /\ Len(robinLog') = Len(robinLog) + 1
        /\ robinLog'[Len(robinLog')].op = "Add"
        /\ robinLog'[Len(robinLog')].err = ErrNone
        /\ rrLen(robin) > 0
        => LET n == rrLen(robin)
               before == serve(robin, robinHeap, n)
           IN  /\ robin'.ring = robin.ring
               /\ {before[i] : i \in DOMAIN before} = robin.consumers
               /\ serve(robin', robinHeap', n + 1)
                    = Append(before, robinLog'[Len(robinLog')].consumer)
      ]_vars

occurrences(seq, x) == Cardinality({i \in DOMAIN seq : seq[i] = x})

(***************************************************************************)
(* C32. Every delivery carries a message some caller passed to Consume and *)
(* every accepted message is delivered at most once: at all times, during  *)
(* and after a graceful or forced shutdown included, the delivered         *)
(* messages are a sub-multiset of the accepted ones (nothing invented, no  *)
(* zero message, no duplicate).                                            *)
(***************************************************************************)
C32_DeliveredWereAccepted ==
    \A msg \in Msgs \cup {NilMsg} :
        occurrences(deliveredMsgs, msg) <= occurrences(accepted, msg)

(***************************************************************************)
(* C33. Shutdown of the ingestion loop.  Graceful: after the signal it     *)
(* accepts nothing more, hands the messages of its store to the handoff    *)
(* channel in store order, closes the channel only when the store is       *)
(* empty (at once if it was empty), and acknowledges after that: at the    *)
(* acknowledgment the store is empty, every accepted message has been      *)
(* handed off and the channel is closed.  Forced: from the receipt of the  *)
(* signal on it hands off nothing, keeps its store and never closes the    *)
(* channel.                                                                *)
(***************************************************************************)
C33_IngestionShutdown ==
    [][ /\ (ihPc' \in {"cnf", "done"} /\ ~force')
            => (qLen(store') = 0 /\ outputClosed' /\ handed' = accepted')
        /\ outputClosed' => (ihPc' \in {"cnf", "done"} /\ ~force')
        /\ ihPc = "drain"
            => /\ accepted' = accepted
               /\ \/ handed' = handed /\ store' = store
                  \/ handed' = Append(handed, qPeek(store)) /\ store' = qRemove(store)
        /\ (ihPc # "loop" /\ force)
            => (handed' = handed /\ store' = store /\ ~outputClosed')
        /\ (ihPc = "loop" /\ ihPc' # "loop" /\ force')
            => (handed' = handed /\ store' = store /\ ~outputClosed')
      ]_vars

\* the ingestion loop has acknowledged a graceful shutdown after handing off
\* every message a producer gave it
C33_Witness ==
    /\ ~force /\ ihPc = "done" /\ outputClosed
    /\ Len(handed) = MaxMsgs /\ qLen(store) = 0

(***************************************************************************)
(* C34. On an open queue, under fair scheduling and with consumers whose   *)
(* Consume returns: every delivery goes to a consumer subscribed at that   *)
(* time, and once a consumer is subscribed every accepted message, those   *)
(* buffered while nobody was subscribed included, is eventually delivered  *)
(* and the store eventually empties (Len() back to 0), unless the queue is *)
(* closed or the last consumer leaves first.                               *)
(***************************************************************************)
C34_BufferedEventuallyDelivered ==
    /\ [][(clPc = "idle" /\ delivered' # delivered)
            => delivered'[Len(delivered')][1] \in rr.consumers]_vars
    /\ \A i \in 1..MaxMsgs :
            (Len(accepted) >= i /\ rr.consumers # {})
                ~> (Len(delivered) >= i \/ clPc # "idle" \/ rr.consumers = {})
    /\ (rr.consumers # {})
            ~> (qLen(store) = 0 \/ clPc # "idle" \/ rr.consumers = {})

(***************************************************************************)
(* C35. The dispatch loop never calls ring.Next() on a ring without        *)
(* members: every step in which it invokes a consumer (in its main select  *)
(* or in the flush of a graceful shutdown) starts with Len() > 0, and it   *)
(* is in the flush loop only with Len() > 0.                               *)
(***************************************************************************)
C35_NextOnlyWithMembers ==
    [][ /\ delivered' # delivered => rrLen(rr) > 0
        /\ ohPc' \in {"flush", "flushConsume"} => rrLen(rr') > 0
      ]_vars

\* a consumer is being invoked from the flush loop, after earlier deliveries
C35_Witness == ohPc = "flushConsume" /\ Len(delivered) = MaxMsgs /\ ~force

C37_PublicationNonBlocking ==
    /\ [][ /\ patternCache' # patternCache
                => (cacheMu.writer # NoJob /\ cacheMu.readers = {})
           /\ \A t \in Callers :
                (tPc[t] = "found" /\ tPc'[t] = "idle" /\ ~tRes[t].cached)
                    => tKey[t] \notin DOMAIN patternCache'
         ]_vars
    /\ \A t \in Callers : (tPc[t] # "idle") ~> (tPc[t] = "idle")
    /\ \A key \in CacheKeys :
            (\E t \in Callers : tPc[t] = "found" /\ tKey[t] = key)
                ~> (key \in DOMAIN patternCache)

\* every binding key has been published and a call answers from the cache
C37_Witness ==
    /\ DOMAIN patternCache = CacheKeys
    /\ mPublish = {} /\ cacheMu.writer = NoJob
    /\ \E t \in Callers : tPc[t] = "found" /\ tRes[t].cached

====
